---------------------------- MODULE Spec2Model ----------------------------
(***************************************************************************)
(* A model of promptgen's template generator (src/src/lib.rs).             *)
(*                                                                         *)
(* Strings are sequences of one-character strings.  The ESC character      *)
(* (0x1b) is the element "ESC".  push_brace pushes two different private   *)
(* use glyphs: U+E0B6 in an open boundary (line 116) and U+E0B4 in a close *)
(* boundary (line 130); they are the elements "U+E0B6" and "U+E0B4".       *)
(* Option<T> is a sequence of length 0 (None) or 1 (Some).                 *)
(*                                                                         *)
(* run_len and run_top are history variables, not state of the program:    *)
(* the number of braces in the pending run of equal braces, and the top of *)
(* the section stack when that run began.  So are prev_top, the top of the *)
(* stack before the last push or pop, and calls, the arguments of every    *)
(* call of push_brace so far with the number of characters read before it. *)
(***************************************************************************)
EXTENDS Integers, Sequences, FiniteSets, TLC

VARIABLES template, shell, pos, buffer, sections, active_section, last_brace, pc, result,
          run_len, run_top, prev_top, calls

vars == <<template, shell, pos, buffer, sections, active_section, last_brace, pc, result,
          run_len, run_top, prev_top, calls>>

---------------------------------------------------------------------------
(* Bounds of the model *)

MaxLen == 4
MaxPieces == 6
MaxText == 2
MaxPrefix == 3
MaxField == 257

---------------------------------------------------------------------------
(* Characters and constants of the source *)

OPEN_BRACE == "{"
CLOSE_BRACE == "}"
ESC == "ESC"
SENTINEL_OPEN == "U+E0B6"
SENTINEL_CLOSE == "U+E0B4"

U8_MAX == 255

None == <<>>
Some(x) == <<x>>

Shells == {"Any", "Zsh", "Bash"}

Section(f, b) == [fg |-> f, bg |-> b]

Foreground(c) == [kind |-> "Foreground", color |-> c]
Background(c) == [kind |-> "Background", color |-> c]
Reset == [kind |-> "Reset"]

Ok(v) == [tag |-> "Ok", val |-> v]
Err(m) == [tag |-> "Err", msg |-> m]

---------------------------------------------------------------------------
(* Generic sequence helpers *)

RECURSIVE Flatten(_)
Flatten(ss) == IF ss = <<>> THEN <<>> ELSE Head(ss) \o Flatten(Tail(ss))

\* Mutant of Last: the outermost section instead of the innermost.
Last_outermost(s) == IF s = <<>> THEN None ELSE Some(s[1])

Last(s) == IF s = <<>> THEN None ELSE Some(s[Len(s)])

\* Mutant of Pop: the whole stack is dropped.
Pop_clear(s) == <<>>

Pop(s) == IF s = <<>> THEN s ELSE SubSeq(s, 1, Len(s) - 1)

Drop(s, n) == SubSeq(s, n + 1, Len(s))

---------------------------------------------------------------------------
(* Integer formatting and parsing (format!("{}", u8) and str::parse::<u8>) *)

DigitChars == <<"0", "1", "2", "3", "4", "5", "6", "7", "8", "9">>

IsDigit(c) == \E i \in 1..10 : DigitChars[i] = c

ToDigit(c) == (CHOOSE i \in 1..10 : DigitChars[i] = c) - 1

RECURSIVE Display(_)
Display(n) == IF n < 10 THEN <<DigitChars[n + 1]>>
              ELSE Append(Display(n \div 10), DigitChars[(n % 10) + 1])

RECURSIVE ParseDigits(_, _)
ParseDigits(digits, acc) ==
    IF digits = <<>> THEN Ok(acc)
    ELSE IF ~IsDigit(Head(digits)) THEN Err("invalid digit found in string")
    ELSE IF acc * 10 > U8_MAX THEN Err("number too large to fit in target type")
    ELSE IF acc * 10 + ToDigit(Head(digits)) > U8_MAX
         THEN Err("number too large to fit in target type")
    ELSE ParseDigits(Tail(digits), acc * 10 + ToDigit(Head(digits)))

ParseU8(src) ==
    IF src = <<>> THEN Err("cannot parse integer from empty string")
    ELSE IF src = <<"+">> \/ src = <<"-">> THEN Err("invalid digit found in string")
    ELSE IF Head(src) = "+" THEN ParseDigits(Tail(src), 0)
    ELSE ParseDigits(src, 0)

InvalidFg(e) ==
    CASE e = "cannot parse integer from empty string" ->
            "Invalid fg: cannot parse integer from empty string"
      [] e = "invalid digit found in string" ->
            "Invalid fg: invalid digit found in string"
      [] e = "number too large to fit in target type" ->
            "Invalid fg: number too large to fit in target type"

InvalidBg(e) ==
    CASE e = "cannot parse integer from empty string" ->
            "Invalid bg: cannot parse integer from empty string"
      [] e = "invalid digit found in string" ->
            "Invalid bg: invalid digit found in string"
      [] e = "number too large to fit in target type" ->
            "Invalid bg: number too large to fit in target type"

---------------------------------------------------------------------------
(* read_meta *)

RECURSIVE TakeWhileNotColon(_)
TakeWhileNotColon(chars) ==
    IF chars = <<>> \/ Head(chars) = ":" THEN <<>>
    ELSE <<Head(chars)>> \o TakeWhileNotColon(Tail(chars))

\* Mutant of Consumed: the character that fails the predicate stays in the iterator.
Consumed_keeps_colon(chars) == Len(TakeWhileNotColon(chars))

\* Number of characters the take_while adaptor pulls from the iterator: the
\* metadata and the first character that fails the predicate, if there is one.
Consumed(chars) ==
    LET n == Len(TakeWhileNotColon(chars))
    IN  IF n < Len(chars) THEN n + 1 ELSE n

RECURSIVE Split(_)
Split(s) ==
    IF \A i \in 1..Len(s) : s[i] # "," THEN <<s>>
    ELSE LET k == CHOOSE i \in 1..Len(s) : s[i] = "," /\ \A j \in 1..(i - 1) : s[j] # ","
         IN  <<SubSeq(s, 1, k - 1)>> \o Split(Drop(s, k))

\* Mutant of read_meta: only too few fields are refused.
read_meta_min_fields(chars) ==
    LET meta == Split(TakeWhileNotColon(chars))
    IN  IF Len(meta) < 2 THEN Err("Both fg and bg should be specified")
        ELSE LET fg == ParseU8(meta[1])
             IN  IF fg.tag = "Err" THEN Err(InvalidFg(fg.msg))
                 ELSE LET bg == ParseU8(meta[2])
                      IN  IF bg.tag = "Err" THEN Err(InvalidBg(bg.msg))
                          ELSE Ok(Section(fg.val, bg.val))

\* Mutant of read_meta: the background field is parsed before the foreground field.
read_meta_bg_first(chars) ==
    LET meta == Split(TakeWhileNotColon(chars))
    IN  IF Len(meta) # 2 THEN Err("Both fg and bg should be specified")
        ELSE LET bg == ParseU8(meta[2])
             IN  IF bg.tag = "Err" THEN Err(InvalidBg(bg.msg))
                 ELSE LET fg == ParseU8(meta[1])
                      IN  IF fg.tag = "Err" THEN Err(InvalidFg(fg.msg))
                          ELSE Ok(Section(fg.val, bg.val))

\* Mutant of read_meta: metadata that no ":" ends is refused.
read_meta_unterminated_err(chars) ==
    LET meta == Split(TakeWhileNotColon(chars))
    IN  IF TakeWhileNotColon(chars) = chars THEN Err("Unterminated section")
        ELSE IF Len(meta) # 2 THEN Err("Both fg and bg should be specified")
        ELSE LET fg == ParseU8(meta[1])
             IN  IF fg.tag = "Err" THEN Err(InvalidFg(fg.msg))
                 ELSE LET bg == ParseU8(meta[2])
                      IN  IF bg.tag = "Err" THEN Err(InvalidBg(bg.msg))
                          ELSE Ok(Section(fg.val, bg.val))

read_meta(chars) ==
    LET meta == Split(TakeWhileNotColon(chars))
    IN  IF Len(meta) # 2 THEN Err("Both fg and bg should be specified")
        ELSE LET fg == ParseU8(meta[1])
             IN  IF fg.tag = "Err" THEN Err(InvalidFg(fg.msg))
                 ELSE LET bg == ParseU8(meta[2])
                      IN  IF bg.tag = "Err" THEN Err(InvalidBg(bg.msg))
                          ELSE Ok(Section(fg.val, bg.val))

---------------------------------------------------------------------------
(* push_escape_code and push_brace *)

EscapeText(escape) ==
    CASE escape.kind = "Foreground" -> <<"3", "8", ";", "5", ";">> \o Display(escape.color)
      [] escape.kind = "Background" -> <<"4", "8", ";", "5", ";">> \o Display(escape.color)
      [] escape.kind = "Reset" -> <<"0">>

WrapOpen(sh) ==
    CASE sh = "Zsh" -> <<"%", "{">>
      [] sh = "Bash" -> <<"\\", "[">>
      [] OTHER -> <<>>

WrapClose(sh) ==
    CASE sh = "Zsh" -> <<"%", "}">>
      [] sh = "Bash" -> <<"\\", "]">>
      [] OTHER -> <<>>

\* Mutant of push_escape_code: the closing marker is pushed for Zsh alone.
push_escape_code_unclosed(buf, escape, sh) ==
    buf \o WrapOpen(sh) \o <<ESC, "[">> \o EscapeText(escape) \o <<"m">>
        \o (IF sh = "Zsh" THEN WrapClose(sh) ELSE <<>>)

push_escape_code(buf, escape, sh) ==
    buf \o WrapOpen(sh) \o <<ESC, "[">> \o EscapeText(escape) \o <<"m">> \o WrapClose(sh)

\* Mutant of push_brace: the open boundary starts with Foreground(next.fg).
push_brace_open_fg_first(buf, brace, current, next, sh) ==
    IF brace = OPEN_BRACE THEN
        IF next # None THEN
            LET b1 == push_escape_code(buf, Foreground(next[1].fg), sh)
                b2 == Append(b1, SENTINEL_OPEN)
                b3 == push_escape_code(b2, Foreground(next[1].bg), sh)
            IN  push_escape_code(b3, Background(next[1].bg), sh)
        ELSE buf
    ELSE IF brace = CLOSE_BRACE THEN
        LET e1 == IF next # None THEN Background(next[1].bg) ELSE Reset
            b1 == push_escape_code(buf, e1, sh)
            b2 == IF current # None
                  THEN Append(push_escape_code(b1, Foreground(current[1].bg), sh),
                              SENTINEL_CLOSE)
                  ELSE b1
            e2 == IF next # None THEN Foreground(next[1].fg) ELSE Reset
        IN  push_escape_code(b2, e2, sh)
    ELSE buf

\* Mutant of push_brace: the close boundary pushes Foreground(current.bg) and the
\* marker before the background transition.
push_brace_close_reordered(buf, brace, current, next, sh) ==
    IF brace = OPEN_BRACE THEN
        IF next # None THEN
            LET b1 == push_escape_code(buf, Foreground(next[1].bg), sh)
                b2 == Append(b1, SENTINEL_OPEN)
                b3 == push_escape_code(b2, Foreground(next[1].fg), sh)
            IN  push_escape_code(b3, Background(next[1].bg), sh)
        ELSE buf
    ELSE IF brace = CLOSE_BRACE THEN
        LET e1 == IF next # None THEN Background(next[1].bg) ELSE Reset
            b1 == IF current # None
                  THEN Append(push_escape_code(buf, Foreground(current[1].bg), sh),
                              SENTINEL_CLOSE)
                  ELSE buf
            b2 == push_escape_code(b1, e1, sh)
            e2 == IF next # None THEN Foreground(next[1].fg) ELSE Reset
        IN  push_escape_code(b2, e2, sh)
    ELSE buf

\* Mutant of push_brace: the close boundary ends after the marker.
push_brace_close_no_last(buf, brace, current, next, sh) ==
    IF brace = OPEN_BRACE THEN
        IF next # None THEN
            LET b1 == push_escape_code(buf, Foreground(next[1].bg), sh)
                b2 == Append(b1, SENTINEL_OPEN)
                b3 == push_escape_code(b2, Foreground(next[1].fg), sh)
            IN  push_escape_code(b3, Background(next[1].bg), sh)
        ELSE buf
    ELSE IF brace = CLOSE_BRACE THEN
        LET e1 == IF next # None THEN Background(next[1].bg) ELSE Reset
            b1 == push_escape_code(buf, e1, sh)
        IN  IF current # None
            THEN Append(push_escape_code(b1, Foreground(current[1].bg), sh),
                        SENTINEL_CLOSE)
            ELSE b1
    ELSE buf

push_brace(buf, brace, current, next, sh) ==
    IF brace = OPEN_BRACE THEN
        IF next # None THEN
            LET b1 == push_escape_code(buf, Foreground(next[1].bg), sh)
                b2 == Append(b1, SENTINEL_OPEN)
                b3 == push_escape_code(b2, Foreground(next[1].fg), sh)
            IN  push_escape_code(b3, Background(next[1].bg), sh)
        ELSE buf
    ELSE IF brace = CLOSE_BRACE THEN
        LET e1 == IF next # None THEN Background(next[1].bg) ELSE Reset
            b1 == push_escape_code(buf, e1, sh)
            b2 == IF current # None
                  THEN Append(push_escape_code(b1, Foreground(current[1].bg), sh),
                              SENTINEL_CLOSE)
                  ELSE b1
            e2 == IF next # None THEN Foreground(next[1].fg) ELSE Reset
        IN  push_escape_code(b2, e2, sh)
    ELSE buf

---------------------------------------------------------------------------
(* generate: the state of one call and its steps *)

State == [template |-> template, shell |-> shell, pos |-> pos, buffer |-> buffer,
          sections |-> sections, active_section |-> active_section,
          last_brace |-> last_brace, pc |-> pc, result |-> result,
          run_len |-> run_len, run_top |-> run_top, prev_top |-> prev_top,
          calls |-> calls]

InitState(t, sh) ==
    [template |-> t, shell |-> sh, pos |-> 0, buffer |-> <<>>, sections |-> <<>>,
     active_section |-> None, last_brace |-> None, pc |-> "scan", result |-> None,
     run_len |-> 0, run_top |-> None, prev_top |-> None, calls |-> <<>>]

\* The character chars.next() yields, and what the iterator still holds after it.
NextChar(st) == st.template[st.pos + 1]
Rest(st) == Drop(st.template, st.pos + 1)

\* History: the call of push_brace a flush of state st makes, with current cur.
Called(st, cur) ==
    Append(st.calls, [brace |-> st.last_brace[1], current |-> cur,
                      next |-> Last(st.sections), pos |-> st.pos])

\* Mutant of Flush: the flush leaves active_section as it was.
Flush_stale_active(st, c) ==
    IF st.last_brace # None /\ st.last_brace[1] # c
    THEN [st EXCEPT !.buffer = push_brace(st.buffer, st.last_brace[1], st.active_section,
                                          Last(st.sections), st.shell),
                    !.run_len = 0,
                    !.run_top = None,
                    !.calls = Called(st, st.active_section)]
    ELSE st

\* Mutant of Flush: a pending brace is flushed whatever the character read.
Flush_every_brace(st, c) ==
    IF st.last_brace # None
    THEN [st EXCEPT !.buffer = push_brace(st.buffer, st.last_brace[1], st.active_section,
                                          Last(st.sections), st.shell),
                    !.active_section = Last(st.sections),
                    !.run_len = 0,
                    !.run_top = None,
                    !.calls = Called(st, st.active_section)]
    ELSE st

\* Mutant of Flush: the stack top is passed as current, not the remembered section.
Flush_current_is_top(st, c) ==
    IF st.last_brace # None /\ st.last_brace[1] # c
    THEN [st EXCEPT !.buffer = push_brace(st.buffer, st.last_brace[1], Last(st.sections),
                                          Last(st.sections), st.shell),
                    !.active_section = Last(st.sections),
                    !.run_len = 0,
                    !.run_top = None,
                    !.calls = Called(st, Last(st.sections))]
    ELSE st

\* Lines 36-48: the boundary flush at the head of an iteration that read c.
Flush(st, c) ==
    IF st.last_brace # None /\ st.last_brace[1] # c
    THEN [st EXCEPT !.buffer = push_brace(st.buffer, st.last_brace[1], st.active_section,
                                          Last(st.sections), st.shell),
                    !.active_section = Last(st.sections),
                    !.run_len = 0,
                    !.run_top = None,
                    !.calls = Called(st, st.active_section)]
    ELSE st

\* History: brace c joins the pending run of the flushed state f, or begins a run.
Joined(f, c) ==
    IF f.run_len > 0
    THEN [f EXCEPT !.run_len = f.run_len + 1, !.prev_top = Last(f.sections)]
    ELSE [f EXCEPT !.run_len = 1, !.run_top = Last(f.sections),
                   !.prev_top = Last(f.sections)]

\* An iteration that reads OPEN_BRACE while read_meta succeeds.
StepOpen(st) ==
    LET f == Joined(Flush(st, OPEN_BRACE), OPEN_BRACE)
        r == read_meta(Rest(st))
    IN  [f EXCEPT !.pos = st.pos + 1 + Consumed(Rest(st)),
                  !.sections = Append(f.sections, r.val),
                  !.last_brace = Some(OPEN_BRACE)]

\* Mutant of StepOpenErr: the error is recorded and the scan goes on.
StepOpenErr_continue(st) ==
    LET f == Flush(st, OPEN_BRACE)
        r == read_meta(Rest(st))
    IN  [f EXCEPT !.pos = st.pos + 1 + Consumed(Rest(st)),
                  !.result = Some(Err(r.msg))]

\* An iteration that reads OPEN_BRACE while read_meta fails: `?` returns the error.
StepOpenErr(st) ==
    LET f == Flush(st, OPEN_BRACE)
        r == read_meta(Rest(st))
    IN  [f EXCEPT !.pos = st.pos + 1 + Consumed(Rest(st)),
                  !.pc = "done",
                  !.result = Some(Err(r.msg))]

\* Mutant of StepClose: a closing brace on an empty stack is refused.
StepClose_unmatched_err(st) ==
    LET f == Joined(Flush(st, CLOSE_BRACE), CLOSE_BRACE)
    IN  IF f.sections = <<>>
        THEN [f EXCEPT !.pos = st.pos + 1, !.pc = "done",
                       !.result = Some(Err("Unmatched closing brace"))]
        ELSE [f EXCEPT !.pos = st.pos + 1,
                       !.sections = Pop(f.sections),
                       !.last_brace = Some(CLOSE_BRACE)]

\* Mutant of StepClose: the pending brace is left as it was.
StepClose_keeps_pending(st) ==
    LET f == Joined(Flush(st, CLOSE_BRACE), CLOSE_BRACE)
    IN  [f EXCEPT !.pos = st.pos + 1,
                  !.sections = Pop(f.sections)]

\* Mutant of StepClose: the section is not popped.
StepClose_no_pop(st) ==
    LET f == Joined(Flush(st, CLOSE_BRACE), CLOSE_BRACE)
    IN  [f EXCEPT !.pos = st.pos + 1,
                  !.last_brace = Some(CLOSE_BRACE)]

\* An iteration that reads CLOSE_BRACE.
StepClose(st) ==
    LET f == Joined(Flush(st, CLOSE_BRACE), CLOSE_BRACE)
    IN  [f EXCEPT !.pos = st.pos + 1,
                  !.sections = Pop(f.sections),
                  !.last_brace = Some(CLOSE_BRACE)]

\* Mutant of StepOther: the character is pushed and stays in the iterator.
StepOther_no_advance(st) ==
    LET c == NextChar(st)
        f == Flush(st, c)
    IN  [f EXCEPT !.buffer = Append(f.buffer, c),
                  !.last_brace = None,
                  !.run_len = 0,
                  !.run_top = None]

\* An iteration that reads any other character.
StepOther(st) ==
    LET c == NextChar(st)
        f == Flush(st, c)
    IN  [f EXCEPT !.pos = st.pos + 1,
                  !.buffer = Append(f.buffer, c),
                  !.last_brace = None,
                  !.run_len = 0,
                  !.run_top = None]

\* Mutant of StepEnd: the final flush passes the stack top as current.
StepEnd_current_is_top(st) ==
    LET b == IF st.last_brace # None
             THEN push_brace(st.buffer, st.last_brace[1], Last(st.sections),
                             Last(st.sections), st.shell)
             ELSE st.buffer
    IN  [st EXCEPT !.buffer = b, !.pc = "done", !.result = Some(Ok(b)),
                   !.run_len = 0, !.run_top = None,
                   !.calls = IF st.last_brace # None THEN Called(st, Last(st.sections))
                             ELSE st.calls]

\* chars.next() yields None: the final flush and Ok(buffer).
StepEnd(st) ==
    LET b == IF st.last_brace # None
             THEN push_brace(st.buffer, st.last_brace[1], st.active_section,
                             Last(st.sections), st.shell)
             ELSE st.buffer
    IN  [st EXCEPT !.buffer = b, !.pc = "done", !.result = Some(Ok(b)),
                   !.run_len = 0, !.run_top = None,
                   !.calls = IF st.last_brace # None THEN Called(st, st.active_section)
                             ELSE st.calls]

AtEnd(st) == st.pos >= Len(st.template)

Step(st) ==
    IF AtEnd(st) THEN StepEnd(st)
    ELSE IF NextChar(st) = OPEN_BRACE
         THEN IF read_meta(Rest(st)).tag = "Ok" THEN StepOpen(st) ELSE StepOpenErr(st)
    ELSE IF NextChar(st) = CLOSE_BRACE THEN StepClose(st)
    ELSE StepOther(st)

RECURSIVE Run(_)
Run(st) == IF st.pc = "done" THEN st ELSE Run(Step(st))

generate(t, sh) == Run(InitState(t, sh)).result[1]

---------------------------------------------------------------------------
(* The templates and shells generate is called with *)

SeqsUpTo(S, n) == UNION {[1..k -> S] : k \in 0..n}

SecA == Section(0, 1)
SecB == Section(100, 200)

OpenDirective(s) == <<OPEN_BRACE>> \o Display(s.fg) \o <<",">> \o Display(s.bg) \o <<":">>

\* Every string over a small alphabet.
Sigma == {OPEN_BRACE, CLOSE_BRACE, ":", ",", "1", "x"}
BruteTemplates == SeqsUpTo(Sigma, MaxLen)

\* Every arrangement of well-formed opening directives, closing braces and text.
PieceSet == {OpenDirective(SecA), OpenDirective(SecB), <<CLOSE_BRACE>>, <<"x">>}
PieceTemplates == {Flatten(ps) : ps \in SeqsUpTo(PieceSet, MaxPieces)}

\* One section {f1,f2:x} whose two fields range over numbers and non-numbers.
Texts == SeqsUpTo({"x", " "}, MaxText)
ShortTexts == SeqsUpTo({"x"}, MaxText)
AllFields == {Display(n) : n \in 0..MaxField}
FewFields == {<<"0">>, <<"2", "5", "5">>, <<"2", "5", "6">>, <<"9", "9", "9">>, <<>>,
              <<"-", "9">>, <<"x">>, <<"1", "x">>, <<"+", "7">>, <<"0", "0", "7">>,
              <<"9", "9", "x">>, <<"-">>}
FieldPairs == (AllFields \X FewFields) \cup (FewFields \X AllFields)
FieldTemplates ==
    {<<OPEN_BRACE>> \o p[1] \o <<",">> \o p[2] \o <<":", "x", CLOSE_BRACE>> : p \in FieldPairs}

\* One section {fg,bg:text} over texts that may be empty.
SingleTemplates ==
    {OpenDirective(Section(c[1], c[2])) \o t \o <<CLOSE_BRACE>> :
        c \in {0, 9, 10, 255} \X {0, 99, 100, 255}, t \in Texts}

\* Metadata of one to MaxPieces - 2 comma separated fields, with and without ':'.
RECURSIVE JoinComma(_)
JoinComma(fs) ==
    IF Len(fs) = 1 THEN fs[1] ELSE fs[1] \o <<",">> \o JoinComma(Tail(fs))
CountTemplates ==
    {<<OPEN_BRACE>> \o JoinComma(fs) \o t :
        fs \in SeqsUpTo({<<"1">>, <<>>, <<"3", "0", "0">>}, MaxPieces - 2) \ {<<>>},
        t \in {<<>>, <<":">>, <<":", "x", CLOSE_BRACE>>}}

\* A malformed opening directive after a well-formed prefix.
BadDirectives == {<<OPEN_BRACE, "1", ":">>, <<OPEN_BRACE, "9", "9", "9", ",", "1", ":">>,
                  <<OPEN_BRACE, "1", ",", "-", "9", ":">>, <<OPEN_BRACE, "1", ",">>}
FailTemplates ==
    {Flatten(ps) \o b \o t :
        ps \in SeqsUpTo(PieceSet, MaxPrefix), b \in BadDirectives,
        t \in {<<>>, <<"x", CLOSE_BRACE>>, OpenDirective(SecA) \o <<"x", CLOSE_BRACE>>}}

\* Two sections one after the other: {A:x}m{B:y}.
SeqTemplates ==
    {OpenDirective(ab[1]) \o t[1] \o <<CLOSE_BRACE>> \o t[2]
        \o OpenDirective(ab[2]) \o t[3] \o <<CLOSE_BRACE>> :
        ab \in {SecA, SecB} \X {SecA, SecB}, t \in ShortTexts \X Texts \X ShortTexts}

Templates == BruteTemplates \cup PieceTemplates \cup SingleTemplates \cup CountTemplates
                \cup FailTemplates \cup SeqTemplates

---------------------------------------------------------------------------
(* The state machine *)

Init ==
    /\ \/ template \in Templates /\ shell \in Shells
       \/ template \in FieldTemplates /\ shell = "Any"
    /\ pos = 0
    /\ buffer = <<>>
    /\ sections = <<>>
    /\ active_section = None
    /\ last_brace = None
    /\ pc = "scan"
    /\ result = None
    /\ run_len = 0
    /\ run_top = None
    /\ prev_top = None
    /\ calls = <<>>

Become(st) ==
    /\ pos' = st.pos
    /\ buffer' = st.buffer
    /\ sections' = st.sections
    /\ active_section' = st.active_section
    /\ last_brace' = st.last_brace
    /\ pc' = st.pc
    /\ result' = st.result
    /\ run_len' = st.run_len
    /\ run_top' = st.run_top
    /\ prev_top' = st.prev_top
    /\ calls' = st.calls
    /\ UNCHANGED <<template, shell>>

ScanOpen ==
    /\ pc = "scan"
    /\ ~AtEnd(State)
    /\ NextChar(State) = OPEN_BRACE
    /\ read_meta(Rest(State)).tag = "Ok"
    /\ Become(StepOpen(State))

ScanOpenErr ==
    /\ pc = "scan"
    /\ ~AtEnd(State)
    /\ NextChar(State) = OPEN_BRACE
    /\ read_meta(Rest(State)).tag = "Err"
    /\ Become(StepOpenErr(State))

ScanClose ==
    /\ pc = "scan"
    /\ ~AtEnd(State)
    /\ NextChar(State) = CLOSE_BRACE
    /\ Become(StepClose(State))

ScanOther ==
    /\ pc = "scan"
    /\ ~AtEnd(State)
    /\ NextChar(State) \notin {OPEN_BRACE, CLOSE_BRACE}
    /\ Become(StepOther(State))

Finish ==
    /\ pc = "scan"
    /\ AtEnd(State)
    /\ Become(StepEnd(State))

Next == ScanOpen \/ ScanOpenErr \/ ScanClose \/ ScanOther \/ Finish

Spec == Init /\ [][Next]_vars

---------------------------------------------------------------------------
(* What the claims expect, written from their statements *)

ExpectedWrap(sh, code) ==
    CASE sh = "Any" -> code
      [] sh = "Zsh" -> <<"%", "{">> \o code \o <<"%", "}">>
      [] sh = "Bash" -> <<"\\", "[">> \o code \o <<"\\", "]">>

\* The escape sequences, from the decimal numeral of the colour.
ExpectedFg(numeral, sh) ==
    ExpectedWrap(sh, <<ESC, "[", "3", "8", ";", "5", ";">> \o numeral \o <<"m">>)
ExpectedBg(numeral, sh) ==
    ExpectedWrap(sh, <<ESC, "[", "4", "8", ";", "5", ";">> \o numeral \o <<"m">>)
ExpectedReset(sh) == ExpectedWrap(sh, <<ESC, "[", "0", "m">>)

ExpectedOpenBoundary(next, sh) ==
    ExpectedFg(Display(next.bg), sh) \o <<SENTINEL_OPEN>> \o ExpectedFg(Display(next.fg), sh)
        \o ExpectedBg(Display(next.bg), sh)

\* current and next are options.
ExpectedCloseBoundary(current, next, sh) ==
    (IF next # None THEN ExpectedBg(Display(next[1].bg), sh) ELSE ExpectedReset(sh))
    \o (IF current # None
        THEN ExpectedFg(Display(current[1].bg), sh) \o <<SENTINEL_CLOSE>> ELSE <<>>)
    \o (IF next # None THEN ExpectedFg(Display(next[1].fg), sh) ELSE ExpectedReset(sh))

\* The value of a string of digits, by positional notation.
IsNumeral(f) == f # <<>> /\ \A i \in 1..Len(f) : IsDigit(f[i])

RECURSIVE NumeralValue(_)
NumeralValue(f) ==
    IF f = <<>> THEN 0 ELSE 10 * NumeralValue(SubSeq(f, 1, Len(f) - 1)) + ToDigit(f[Len(f)])

BraceFree(text) == \A i \in 1..Len(text) : text[i] \notin {OPEN_BRACE, CLOSE_BRACE}

\* The numerals of 0..255, as a template would write them.
CanonFields == {Display(n) : n \in 0..U8_MAX}

Commas(s) == {i \in 1..Len(s) : s[i] = ","}
FirstColon(s) == IF \E i \in 1..Len(s) : s[i] = ":"
                 THEN CHOOSE i \in 1..Len(s) : s[i] = ":" /\ \A j \in 1..(i - 1) : s[j] # ":"
                 ELSE 0

\* The shape {f1,f2:text} of a template t, read off its characters.
MetaOf(t) == SubSeq(t, 2, FirstColon(t) - 1)
Field1(t) == SubSeq(MetaOf(t), 1, (CHOOSE i \in Commas(MetaOf(t)) : TRUE) - 1)
Field2(t) == Drop(MetaOf(t), CHOOSE i \in Commas(MetaOf(t)) : TRUE)
TextOf(t) == SubSeq(t, FirstColon(t) + 1, Len(t) - 1)
SingleSection(t) ==
    /\ Len(t) >= 3
    /\ t[1] = OPEN_BRACE
    /\ t[Len(t)] = CLOSE_BRACE
    /\ FirstColon(t) > 0
    /\ Cardinality(Commas(MetaOf(t))) = 1
    /\ Field1(t) \in CanonFields
    /\ Field2(t) \in CanonFields
    /\ BraceFree(TextOf(t))

\* t begins with a well-formed opening directive {f1,f2: ; its section; what follows it.
HeadDirective(t) ==
    /\ Len(t) >= 1
    /\ t[1] = OPEN_BRACE
    /\ FirstColon(t) > 0
    /\ Cardinality(Commas(MetaOf(t))) = 1
    /\ Field1(t) \in CanonFields
    /\ Field2(t) \in CanonFields
SectionOf(t) == Section(NumeralValue(Field1(t)), NumeralValue(Field2(t)))
AfterDirective(t) == Drop(t, FirstColon(t))

\* Foreground(bg), so, Foreground(fg), Background(bg), text, Reset, Foreground(bg), sc, Reset
SinglePattern(fg, bg, text, so, sc, sh) ==
    ExpectedFg(bg, sh) \o <<so>> \o ExpectedFg(fg, sh) \o ExpectedBg(bg, sh) \o text
        \o ExpectedReset(sh) \o ExpectedFg(bg, sh) \o <<sc>> \o ExpectedReset(sh)

SingleOutput(sec, text, sh) ==
    SinglePattern(Display(sec.fg), Display(sec.bg), text, SENTINEL_OPEN, SENTINEL_CLOSE, sh)

Done == pc = "done"
Output == result[1]

---------------------------------------------------------------------------
(* C1 *)

\* C1 as stated: for a well-formed single section {fg,bg:text} under Shell::Any the
\* output is Foreground(bg), sentinel, Foreground(fg), Background(bg), text, Reset,
\* Foreground(bg), sentinel, Reset, with one sentinel character in both places.
C1_Original ==
    (Done /\ shell = "Any" /\ SingleSection(template)) =>
        \E s \in {SENTINEL_OPEN, SENTINEL_CLOSE} :
            Output = Ok(SinglePattern(Field1(template), Field2(template), TextOf(template),
                                      s, s, "Any"))

\* C1 as amended: the same sequence, where the marker of the open boundary is U+E0B6
\* and the marker of the close boundary is the different character U+E0B4.
C1_SingleSection ==
    (Done /\ shell = "Any" /\ SingleSection(template)) =>
        Output = Ok(SinglePattern(Field1(template), Field2(template), TextOf(template),
                                  SENTINEL_OPEN, SENTINEL_CLOSE, "Any"))

C1_Witness ==
    /\ Done /\ shell = "Any" /\ SingleSection(template)
    /\ Field1(template) = <<"2", "5", "5">>
    /\ Field2(template) = <<"1", "0", "0">>
    /\ TextOf(template) = <<"x", " ">>
    /\ Output.tag = "Ok"

---------------------------------------------------------------------------
(* C2 *)

NestedTemplate(a, b, text) ==
    OpenDirective(a) \o OpenDirective(b) \o text \o <<CLOSE_BRACE, CLOSE_BRACE>>

\* The shape {A:{B:text}} of a template t, and its parts.
InnerOf(t) == AfterDirective(t)
NestedText(t) == SubSeq(AfterDirective(InnerOf(t)), 1, Len(AfterDirective(InnerOf(t))) - 2)
Nested(t) ==
    /\ HeadDirective(t)
    /\ HeadDirective(InnerOf(t))
    /\ LET body == AfterDirective(InnerOf(t))
       IN  /\ Len(body) >= 2
           /\ body[Len(body)] = CLOSE_BRACE
           /\ body[Len(body) - 1] = CLOSE_BRACE
           /\ BraceFree(SubSeq(body, 1, Len(body) - 2))

\* C2 as stated: {A:{B:text}} emits A's open boundary, B's open boundary, text, B's
\* close boundary back to A's colours, then A's close boundary to Reset.
C2_Original ==
    (Done /\ Nested(template)) =>
        LET a == SectionOf(template)
            b == SectionOf(InnerOf(template))
        IN  Output = Ok(ExpectedOpenBoundary(a, shell) \o ExpectedOpenBoundary(b, shell)
                        \o NestedText(template)
                        \o ExpectedCloseBoundary(Some(b), Some(a), shell)
                        \o ExpectedCloseBoundary(Some(a), None, shell))

\* C2 as amended: {A:{B:text}} emits B's open boundary alone, then text, then one close
\* boundary from B to Reset (Reset, Foreground(B.bg), marker, Reset); no boundary with
\* A's colours is emitted.
C2_Nested ==
    (Done /\ Nested(template)) =>
        LET b == SectionOf(InnerOf(template))
        IN  Output = Ok(ExpectedOpenBoundary(b, shell) \o NestedText(template)
                        \o ExpectedCloseBoundary(Some(b), None, shell))

C2_Witness ==
    /\ Done /\ template = NestedTemplate(SecA, SecB, <<"x", "x">>)
    /\ Nested(template)
    /\ Output.tag = "Ok"
    /\ shell = "Zsh"

---------------------------------------------------------------------------
(* C3 *)

\* Every escape sequence ESC [ ... m of a text wrapped in the markers of the shell;
\* every other character copied.
RECURSIVE WrapEscapes(_, _)
WrapEscapes(s, sh) ==
    IF s = <<>> THEN <<>>
    ELSE IF Head(s) = ESC
         THEN LET m == CHOOSE i \in 1..Len(s) : s[i] = "m" /\ \A j \in 1..(i - 1) : s[j] # "m"
              IN  ExpectedWrap(sh, SubSeq(s, 1, m)) \o WrapEscapes(Drop(s, m), sh)
    ELSE <<Head(s)>> \o WrapEscapes(Tail(s), sh)

\* C3: generate(T, Zsh) and generate(T, Bash) fail exactly when generate(T, Any) fails,
\* with the same error, and otherwise return the output of generate(T, Any) with each
\* escape sequence wrapped in the shell's markers and everything else in place.
C3_ShellWrapping ==
    Done =>
        LET any == generate(template, "Any")
        IN  IF any.tag = "Err" THEN Output = any
            ELSE Output = Ok(WrapEscapes(any.val, shell))

C3_Witness ==
    /\ Done /\ shell = "Bash"
    /\ Output.tag = "Ok"
    /\ Len(sections) = 1
    /\ \E i \in 1..Len(buffer) : buffer[i] = SENTINEL_CLOSE
    /\ \E i \in 1..Len(buffer) : buffer[i] = "x"

---------------------------------------------------------------------------
(* C4 *)

SeqTemplate(a, x, m, b, y) ==
    OpenDirective(a) \o x \o <<CLOSE_BRACE>> \o m \o OpenDirective(b) \o y \o <<CLOSE_BRACE>>

\* The shape {A:x}m{B:y} of a template t: a single section up to the first closing
\* brace, a single section from the last opening brace, brace-free text between them.
FirstClose(t) == CHOOSE i \in 1..Len(t) : t[i] = CLOSE_BRACE /\ \A j \in 1..(i - 1) : t[j] # CLOSE_BRACE
LastOpen(t) == CHOOSE i \in 1..Len(t) : t[i] = OPEN_BRACE /\ \A j \in (i + 1)..Len(t) : t[j] # OPEN_BRACE
FirstPart(t) == SubSeq(t, 1, FirstClose(t))
GapPart(t) == SubSeq(t, FirstClose(t) + 1, LastOpen(t) - 1)
SecondPart(t) == Drop(t, LastOpen(t) - 1)
TwoSections(t) ==
    /\ \E i \in 1..Len(t) : t[i] = CLOSE_BRACE
    /\ \E i \in 1..Len(t) : t[i] = OPEN_BRACE
    /\ FirstClose(t) < LastOpen(t)
    /\ SingleSection(FirstPart(t))
    /\ SingleSection(SecondPart(t))
    /\ BraceFree(GapPart(t))

SingleOf(t, sh) ==
    SinglePattern(Field1(t), Field2(t), TextOf(t), SENTINEL_OPEN, SENTINEL_CLOSE, sh)

\* C4: the output of {A:x}m{B:y} is the single-section output of {A:x}, then m, then
\* the single-section output of {B:y}; the first block carries only A's colours and
\* Reset, the second only B's.
C4_Sequential ==
    (Done /\ TwoSections(template)) =>
        /\ Output = Ok(SingleOf(FirstPart(template), shell) \o GapPart(template)
                       \o SingleOf(SecondPart(template), shell))
        /\ Output.val = generate(FirstPart(template), shell).val \o GapPart(template)
                        \o generate(SecondPart(template), shell).val

C4_Witness ==
    /\ Done /\ template = SeqTemplate(SecB, <<"x", "x">>, <<" ", "x">>, SecA, <<>>)
    /\ TwoSections(template)
    /\ shell = "Any"
    /\ Output.tag = "Ok"

---------------------------------------------------------------------------
(* Steps of the scan, as the claims about boundaries name them *)

Scanning == pc = "scan"
AtOpen == Scanning /\ ~AtEnd(State) /\ NextChar(State) = OPEN_BRACE
AtClose == Scanning /\ ~AtEnd(State) /\ NextChar(State) = CLOSE_BRACE

\* The step leaves a run of opening (closing) braces: the pending brace is followed by
\* a character of another kind, or by the end of the input.
OpenRunEnds ==
    Scanning /\ last_brace = Some(OPEN_BRACE) /\ (AtEnd(State) \/ NextChar(State) # OPEN_BRACE)
CloseRunEnds ==
    Scanning /\ last_brace = Some(CLOSE_BRACE) /\ (AtEnd(State) \/ NextChar(State) # CLOSE_BRACE)

\* The literal character the step appends after the boundary, if it reads one.
LiteralRead ==
    IF ~AtEnd(State) /\ NextChar(State) \notin {OPEN_BRACE, CLOSE_BRACE}
    THEN <<NextChar(State)>> ELSE <<>>

EndsWith(s, e) == Len(s) >= Len(e) /\ SubSeq(s, Len(s) - Len(e) + 1, Len(s)) = e

---------------------------------------------------------------------------
(* C5 *)

\* C5: the step that ends a run of closing braces appends exactly Background(next.bg),
\* Foreground(current.bg), marker, Foreground(next.fg), where current is the section
\* that was on top of the stack before the run and next the one on top now; the two
\* transition codes are Reset when the stack is empty, and the Foreground(current.bg),
\* marker pair is left out when current is absent.
C5_CloseBoundary ==
    [][CloseRunEnds =>
        buffer' = buffer \o ExpectedCloseBoundary(run_top, Last(sections), shell)
                         \o LiteralRead]_vars

C5_Witness ==
    /\ Scanning /\ last_brace = None
    /\ sections = <<SecA>>
    /\ EndsWith(buffer, ExpectedBg(<<"1">>, shell) \o ExpectedFg(<<"2", "0", "0">>, shell)
                        \o <<SENTINEL_CLOSE>> \o ExpectedFg(<<"0">>, shell) \o <<"x">>)

---------------------------------------------------------------------------
(* C6 *)

\* C6: a run of k >= 2 opening directives emits one open boundary: the steps inside
\* the run append nothing, and the step that ends it appends exactly Foreground(B.bg),
\* marker, Foreground(B.fg), Background(B.bg) for the last pushed section B.
C6_OpenRun ==
    [][/\ (AtOpen /\ last_brace = Some(OPEN_BRACE)) => buffer' = buffer
       /\ (OpenRunEnds /\ run_len >= 2) =>
            buffer' = buffer \o ExpectedOpenBoundary(sections[Len(sections)], shell)
                             \o LiteralRead]_vars

C6_Witness ==
    /\ Scanning /\ last_brace = None
    /\ sections = <<SecA, SecB>>
    /\ buffer = ExpectedOpenBoundary(SecB, shell) \o <<"x">>

---------------------------------------------------------------------------
(* C7 *)

OverlapLeft(a, x, b, y) ==
    OpenDirective(a) \o x \o OpenDirective(b) \o y \o <<CLOSE_BRACE, CLOSE_BRACE>>

\* The shape {A:x{B:y}} of a template t, x not empty, and its parts.
OverlapGap(t) == SubSeq(t, FirstColon(t) + 1, LastOpen(t) - 1)
OverlapInner(t) == SubSeq(t, LastOpen(t), Len(t) - 1)
OverlapLeftShape(t) ==
    /\ HeadDirective(t)
    /\ LastOpen(t) > FirstColon(t) + 1
    /\ BraceFree(OverlapGap(t))
    /\ SingleSection(OverlapInner(t))
    /\ t[Len(t)] = CLOSE_BRACE

OverlapLeftOutput(t, sh) ==
    ExpectedOpenBoundary(SectionOf(t), sh) \o OverlapGap(t)
    \o ExpectedOpenBoundary(SectionOf(OverlapInner(t)), sh) \o TextOf(OverlapInner(t))
    \o ExpectedReset(sh) \o ExpectedFg(Field2(OverlapInner(t)), sh) \o <<SENTINEL_CLOSE>>
    \o ExpectedReset(sh)

\* C7: a run of k >= 2 closing braces emits one close boundary: the steps inside the
\* run append nothing, and the step that ends it appends exactly the close boundary from
\* the section on top before the first brace of the run to the one on top after all k
\* pops; the output of {A:x{B:y}} ends with Reset, Foreground(B.bg), marker, Reset.
C7_CloseRun ==
    [][/\ (AtClose /\ last_brace = Some(CLOSE_BRACE)) => buffer' = buffer
       /\ (CloseRunEnds /\ run_len >= 2) =>
            buffer' = buffer \o ExpectedCloseBoundary(run_top, Last(sections), shell)
                             \o LiteralRead
       /\ (pc' = "done" /\ OverlapLeftShape(template)) =>
            result' = Some(Ok(OverlapLeftOutput(template, shell)))]_vars

C7_Witness ==
    /\ Done /\ template = OverlapLeft(SecA, <<"x">>, SecB, <<"x">>)
    /\ OverlapLeftShape(template)
    /\ Output.tag = "Ok"
    /\ EndsWith(buffer, ExpectedReset(shell) \o ExpectedFg(<<"2", "0", "0">>, shell)
                        \o <<SENTINEL_CLOSE>> \o ExpectedReset(shell))

---------------------------------------------------------------------------
(* C8, C9 *)

\* The metadata after the opening brace about to be read: the text up to the next ':'.
MetaAhead ==
    LET r == Rest(State)
    IN  IF FirstColon(r) = 0 THEN r ELSE SubSeq(r, 1, FirstColon(r) - 1)

\* C8: an opening brace whose metadata has no comma, or two or more, makes generate
\* return "Both fg and bg should be specified", whatever the fields are.
C8_FieldCount ==
    [][(AtOpen /\ Cardinality(Commas(MetaAhead)) # 1) =>
        (pc' = "done" /\ result' = Some(Err("Both fg and bg should be specified")))]_vars

C8_Witness ==
    /\ Done
    /\ template = <<OPEN_BRACE, "1", ",", "1", ",", "1", ":", "x", CLOSE_BRACE>>
    /\ Output = Err("Both fg and bg should be specified")

\* A field that denotes a value in 0..255, and a field that is empty, out of range,
\* negative or not a number (a sign '+' before digits is neither).
GoodField(f) == IsNumeral(f) /\ NumeralValue(f) <= 255
BadField(f) ==
    \/ f = <<>>
    \/ IsNumeral(f) /\ NumeralValue(f) >= 256
    \/ \E i \in 1..Len(f) : ~IsDigit(f[i]) /\ ~(i = 1 /\ f[1] = "+" /\ Len(f) > 1)

FgErrors == {"Invalid fg: cannot parse integer from empty string",
             "Invalid fg: invalid digit found in string",
             "Invalid fg: number too large to fit in target type"}
BgErrors == {"Invalid bg: cannot parse integer from empty string",
             "Invalid bg: invalid digit found in string",
             "Invalid bg: number too large to fit in target type"}

AheadField1 == SubSeq(MetaAhead, 1, (CHOOSE i \in Commas(MetaAhead) : TRUE) - 1)
AheadField2 == Drop(MetaAhead, CHOOSE i \in Commas(MetaAhead) : TRUE)

\* C9: with two fields, two values in 0..255 are accepted and push Section(fg, bg); a
\* bad first field gives an "Invalid fg: ..." error; a bad second field after a good
\* first one gives an "Invalid bg: ..." error.
C9_ColorValues ==
    [][(AtOpen /\ Cardinality(Commas(MetaAhead)) = 1) =>
        /\ (GoodField(AheadField1) /\ GoodField(AheadField2)) =>
              /\ pc' = "scan" /\ result' = None
              /\ sections' = Append(sections, Section(NumeralValue(AheadField1),
                                                      NumeralValue(AheadField2)))
        /\ BadField(AheadField1) =>
              /\ pc' = "done" /\ result'[1].tag = "Err" /\ result'[1].msg \in FgErrors
        /\ (GoodField(AheadField1) /\ BadField(AheadField2)) =>
              /\ pc' = "done" /\ result'[1].tag = "Err" /\ result'[1].msg \in BgErrors
      ]_vars

C9_Witness ==
    /\ Done
    /\ template = <<OPEN_BRACE, "2", "5", "5", ",", "2", "5", "6", ":", "x", CLOSE_BRACE>>
    /\ Output = Err("Invalid bg: number too large to fit in target type")

---------------------------------------------------------------------------
(* C10 *)

\* C10: when read_meta fails the step ends the call: the result is the error alone,
\* no section is pushed, the buffer holds nothing beyond the boundary flushed before
\* read_meta was called, the iterator stands right after the metadata read, and no
\* step follows.
C10_FailFast ==
    [][/\ pc # "done"
       /\ (AtOpen /\ read_meta(Rest(State)).tag = "Err") =>
            /\ pc' = "done"
            /\ result' = Some(Err(read_meta(Rest(State)).msg))
            /\ DOMAIN result'[1] = {"tag", "msg"}
            /\ sections' = sections
            /\ buffer' = buffer \o (IF last_brace = Some(CLOSE_BRACE)
                                    THEN ExpectedCloseBoundary(run_top, Last(sections), shell)
                                    ELSE <<>>)
            /\ pos' = pos + 1 + Len(MetaAhead) + (IF FirstColon(Rest(State)) = 0 THEN 0 ELSE 1)
      ]_vars

C10_Witness ==
    /\ Done /\ Output.tag = "Err"
    /\ Len(sections) = 2
    /\ buffer # <<>>
    /\ pos < Len(template)

---------------------------------------------------------------------------
(* C11 *)

ReaderErrors == FgErrors \cup BgErrors \cup {"Both fg and bg should be specified"}

NoOpenBrace(t) == \A i \in 1..Len(t) : t[i] # OPEN_BRACE

\* C11: a closing brace read while the stack is empty leaves it empty and the scan
\* goes on; a template without an opening brace yields Ok; an error is returned only
\* by a step that reads an opening brace, and it is an error of read_meta.
C11_UnmatchedClose ==
    [][/\ (AtClose /\ sections = <<>>) =>
            (sections' = <<>> /\ pc' = "scan" /\ result' = None /\ pos' = pos + 1)
       /\ (pc' = "done" /\ NoOpenBrace(template)) => result'[1].tag = "Ok"
       /\ (pc' = "done" /\ result'[1].tag = "Err") =>
            (AtOpen /\ result'[1].msg \in ReaderErrors)]_vars

C11_Witness ==
    /\ Done /\ Output.tag = "Ok"
    /\ template = <<CLOSE_BRACE, "x", CLOSE_BRACE, CLOSE_BRACE>>
    /\ sections = <<>>

---------------------------------------------------------------------------
(* C12 *)

\* A brace is pending and the character read is not the same brace, or the input ends.
FlushDue ==
    Scanning /\ last_brace # None /\ (AtEnd(State) \/ NextChar(State) # last_brace[1])

\* C12: a step calls push_brace once when a brace is pending and the step reads another
\* kind of character or the end of the input, and not at all otherwise; the call is for
\* the pending brace, and no earlier call was made at the same place of the input.
C12_OncePerBoundary ==
    [][IF FlushDue
       THEN /\ Len(calls') = Len(calls) + 1
            /\ SubSeq(calls', 1, Len(calls)) = calls
            /\ calls'[Len(calls')].brace = last_brace[1]
            /\ calls'[Len(calls')].pos = pos
            /\ \A i \in 1..Len(calls) : calls[i].pos < pos
       ELSE calls' = calls]_vars

C12_Witness ==
    /\ Done
    /\ Len(calls) = 3
    /\ calls[2].brace = CLOSE_BRACE
    /\ calls[3].brace = OPEN_BRACE
    /\ calls[3].pos = Len(template)

---------------------------------------------------------------------------
(* C13 *)

\* C13 as stated: at every call of push_brace, current is the stack top right before
\* the push or pop of the pending brace and next the stack top right after it.
C13_Original ==
    [][FlushDue =>
        /\ calls'[Len(calls')].current = prev_top
        /\ calls'[Len(calls')].next = Last(sections)]_vars

\* C13 as amended: at every call of push_brace, current is the stack top right before
\* the first push or pop of the pending run of equal braces (for a run of one brace,
\* before the push or pop of that brace) and next the stack top after the last one.
C13_CurrentNext ==
    [][FlushDue =>
        /\ calls'[Len(calls')].current = run_top
        /\ calls'[Len(calls')].next = Last(sections)]_vars

C13_Witness ==
    /\ Done
    /\ Len(calls) = 3
    /\ prev_top = Some(SecA)
    /\ calls[3] = [brace |-> CLOSE_BRACE, current |-> Some(SecB), next |-> None,
                   pos |-> Len(template)]
    /\ template = OverlapLeft(SecA, <<"x">>, SecB, <<"x">>)

---------------------------------------------------------------------------
(* C14 *)

\* Opening braces of t[i..] not matched by a later closing brace, starting from d
\* open ones; a closing brace with nothing open matches nothing.
RECURSIVE UnmatchedFrom(_, _, _)
UnmatchedFrom(t, i, d) ==
    IF i > Len(t) THEN d
    ELSE IF t[i] = OPEN_BRACE THEN UnmatchedFrom(t, i + 1, d + 1)
    ELSE IF t[i] = CLOSE_BRACE THEN UnmatchedFrom(t, i + 1, IF d > 0 THEN d - 1 ELSE 0)
    ELSE UnmatchedFrom(t, i + 1, d)

NotFailed == Scanning \/ (Done /\ Output.tag = "Ok")

\* C14: while the call has not failed, the depth of the stack is the number of opening
\* braces read so far that no later closing brace has matched.
C14_Depth ==
    NotFailed => Len(sections) = UnmatchedFrom(SubSeq(template, 1, pos), 1, 0)

C14_Witness ==
    /\ Scanning
    /\ Len(sections) = 2
    /\ pos < Len(template)
    /\ \E i \in 1..pos : template[i] = CLOSE_BRACE

---------------------------------------------------------------------------
(* C15 *)

DefaultColours == [fg |-> None, bg |-> None]

StartsWith(s, e) == Len(s) >= Len(e) /\ SubSeq(s, 1, Len(e)) = e

\* What a terminal does with the parameters of one ESC[...m sequence.
ApplyCode(col, params) ==
    IF params = <<"0">> THEN DefaultColours
    ELSE IF StartsWith(params, <<"3", "8", ";", "5", ";">>)
    THEN [col EXCEPT !.fg = Some(NumeralValue(Drop(params, 5)))]
    ELSE IF StartsWith(params, <<"4", "8", ";", "5", ";">>)
    THEN [col EXCEPT !.bg = Some(NumeralValue(Drop(params, 5)))]
    ELSE col

\* Index of the "m" that ends the sequence whose parameters begin at i.
EndOfCode(buf, i) ==
    IF \E j \in i..Len(buf) : buf[j] = "m"
    THEN CHOOSE j \in i..Len(buf) : buf[j] = "m" /\ \A k \in i..(j - 1) : buf[k] # "m"
    ELSE Len(buf) + 1

RECURSIVE ReplayFrom(_, _, _)
ReplayFrom(buf, i, col) ==
    IF i > Len(buf) THEN col
    ELSE IF buf[i] = ESC /\ i < Len(buf) /\ buf[i + 1] = "["
    THEN LET j == EndOfCode(buf, i + 2)
         IN  ReplayFrom(buf, j + 1, ApplyCode(col, SubSeq(buf, i + 2, j - 1)))
    ELSE ReplayFrom(buf, i + 1, col)

Replay(buf) == ReplayFrom(buf, 1, DefaultColours)

ColoursOf(top) ==
    IF top = None THEN DefaultColours ELSE [fg |-> Some(top[1].fg), bg |-> Some(top[1].bg)]

\* C15: when a step appends a literal character, the colours a terminal has after
\* replaying the output up to that character are the fg and bg of the section on top
\* of the stack, or the defaults when the stack is empty.
C15_ColourTracking ==
    [][(Scanning /\ LiteralRead # <<>>) =>
        /\ EndsWith(buffer', LiteralRead)
        /\ Replay(buffer') = ColoursOf(Last(sections'))]_vars

C15_Witness ==
    /\ Scanning
    /\ last_brace = None
    /\ sections = <<SecA>>
    /\ calls # <<>>
    /\ calls[Len(calls)].brace = CLOSE_BRACE
    /\ calls[Len(calls)].current = Some(SecB)
    /\ Replay(buffer) = [fg |-> Some(SecA.fg), bg |-> Some(SecA.bg)]

---------------------------------------------------------------------------
(* C16 *)

\* The characters of t[i..n] that are neither braces nor inside a metadata prefix
\* (from just after an opening brace through the next ":", or through the end).
RECURSIVE LiteralsFrom(_, _, _)
LiteralsFrom(t, i, n) ==
    IF i > n THEN <<>>
    ELSE IF t[i] = OPEN_BRACE
    THEN LET c == FirstColon(Drop(t, i))
         IN  IF c = 0 THEN <<>> ELSE LiteralsFrom(t, i + c + 1, n)
    ELSE IF t[i] = CLOSE_BRACE THEN LiteralsFrom(t, i + 1, n)
    ELSE <<t[i]>> \o LiteralsFrom(t, i + 1, n)

\* buf without its escape sequences, their shell wrappers and the boundary markers.
RECURSIVE StripFrom(_, _, _)
StripFrom(buf, i, sh) ==
    IF i > Len(buf) THEN <<>>
    ELSE IF StartsWith(Drop(buf, i - 1), WrapOpen(sh) \o <<ESC, "[">>)
    THEN StripFrom(buf, EndOfCode(buf, i) + 1 + Len(WrapClose(sh)), sh)
    ELSE IF buf[i] \in {SENTINEL_OPEN, SENTINEL_CLOSE} THEN StripFrom(buf, i + 1, sh)
    ELSE <<buf[i]>> \o StripFrom(buf, i + 1, sh)

Strip(buf, sh) == StripFrom(buf, 1, sh)

\* C16: while the call has not failed, the output without escape sequences, wrappers
\* and markers is the literal characters read so far, in template order; a step that
\* reads a literal character appends it and leaves no brace pending.
C16_Literals ==
    [][/\ NotFailed' => Strip(buffer', shell) = LiteralsFrom(template, 1, pos')
       /\ (Scanning /\ LiteralRead # <<>>) =>
            /\ EndsWith(buffer', LiteralRead)
            /\ Strip(buffer', shell) = Strip(buffer, shell) \o LiteralRead
            /\ last_brace' = None]_vars

C16_Witness ==
    /\ Done /\ Output.tag = "Ok"
    /\ shell = "Zsh"
    /\ Strip(buffer, shell) = <<"x", "x">>
    /\ Len(calls) = 3
    /\ \E i \in 1..Len(template) : template[i] = ":"

---------------------------------------------------------------------------
(* C17 *)

\* The character read is an opening brace and no ":" follows it.
Unterminated == AtOpen /\ FirstColon(Rest(State)) = 0

TwoGoodFields ==
    Cardinality(Commas(MetaAhead)) = 1 /\ GoodField(AheadField1) /\ GoodField(AheadField2)

FailsChecks ==
    \/ Cardinality(Commas(MetaAhead)) # 1
    \/ BadField(AheadField1)
    \/ BadField(AheadField2)

\* C17: an opening brace that no ":" follows makes read_meta take the rest of the input
\* as metadata; the step fails only with one of read_meta's errors and only when the
\* text fails the field-count or value checks; with two values in 0..255 the section is
\* pushed, and the step that meets the end of the input emits its open boundary and
\* returns Ok.
C17_NoColon ==
    [][/\ Unterminated =>
            /\ pos' = Len(template)
            /\ MetaAhead = Rest(State)
            /\ pc' = "done" => /\ result'[1].tag = "Err"
                               /\ result'[1].msg \in ReaderErrors
                               /\ FailsChecks
            /\ TwoGoodFields =>
                /\ pc' = "scan"
                /\ sections' = Append(sections, Section(NumeralValue(AheadField1),
                                                        NumeralValue(AheadField2)))
                /\ last_brace' = Some(OPEN_BRACE)
       /\ (Scanning /\ AtEnd(State) /\ last_brace = Some(OPEN_BRACE)) =>
            /\ sections # <<>>
            /\ buffer' = buffer \o ExpectedOpenBoundary(Last(sections)[1], shell)
            /\ result' = Some(Ok(buffer'))]_vars

C17_Witness ==
    /\ Done /\ Output.tag = "Ok"
    /\ template = <<OPEN_BRACE, "1", ",", "1">>
    /\ shell = "Bash"
    /\ Output.val = ExpectedOpenBoundary(Section(1, 1), shell)

---------------------------------------------------------------------------
(* C18 *)

\* C18: a pending opening brace always has a section on the stack; when push_brace is
\* called for it, next is present and the output grows by Foreground(next.bg), the
\* open marker, Foreground(next.fg), Background(next.bg).
C18_OpenHasNext ==
    [][/\ last_brace' = Some(OPEN_BRACE) => sections' # <<>>
       /\ (FlushDue /\ last_brace = Some(OPEN_BRACE)) =>
            /\ sections # <<>>
            /\ calls'[Len(calls')].next = Some(Last(sections)[1])
            /\ StartsWith(buffer', buffer \o ExpectedOpenBoundary(Last(sections)[1], shell))
            /\ Len(buffer') <= Len(buffer)
                               + Len(ExpectedOpenBoundary(Last(sections)[1], shell)) + 1]_vars

C18_Witness ==
    /\ Scanning
    /\ last_brace = None
    /\ sections = <<SecA, SecB>>
    /\ calls # <<>>
    /\ calls[Len(calls)].brace = OPEN_BRACE
    /\ calls[Len(calls)].current = Some(SecA)
    /\ calls[Len(calls)].next = Some(SecB)

---------------------------------------------------------------------------
(* C19 *)

\* Characters left in the iterator, plus one while the loop has not returned.
Variant == (Len(template) - pos) + (IF Scanning THEN 1 ELSE 0)

BracesUpTo(t, n) == Cardinality({i \in 1..n : t[i] \in {OPEN_BRACE, CLOSE_BRACE}})

\* C19: every step consumes characters never consumed before, or is the last one: a
\* step that reads a character moves the cursor forward by that character and, for an
\* opening brace, by the metadata and its ":"; the step that meets the end of the input
\* returns; push_brace has been called at most once per brace character read.
C19_Terminates ==
    [][/\ 0 <= Variant' /\ Variant' < Variant
       /\ (Scanning /\ ~AtEnd(State)) => (pos < pos' /\ pos' <= Len(template))
       /\ AtOpen => pos' = pos + 1 + Len(MetaAhead)
                           + (IF FirstColon(Rest(State)) = 0 THEN 0 ELSE 1)
       /\ (Scanning /\ ~AtEnd(State) /\ ~AtOpen) => pos' = pos + 1
       /\ (Scanning /\ AtEnd(State)) => (pos' = pos /\ Done')
       /\ Len(calls') <= BracesUpTo(template, pos')]_vars

C19_Witness ==
    /\ Done /\ Output.tag = "Ok"
    /\ Len(calls) = 3
    /\ BracesUpTo(template, Len(template)) = 3
    /\ Len(template) > 3

---------------------------------------------------------------------------
(* C20 *)

\* C20: with no brace pending, active_section is the top of the stack; while a brace
\* is pending it is the top from before the pending run began; it changes only in a
\* step that flushes a boundary, and it is the current of every call of push_brace.
C20_ActiveSection ==
    [][/\ last_brace' = None => active_section' = Last(sections')
       /\ (Scanning' /\ last_brace' # None) => active_section' = run_top'
       /\ active_section' # active_section =>
            (FlushDue /\ ~AtEnd(State) /\ active_section' = Last(sections))
       /\ FlushDue => /\ active_section = run_top
                      /\ calls'[Len(calls')].current = active_section]_vars

C20_Witness ==
    /\ Scanning
    /\ last_brace = Some(CLOSE_BRACE)
    /\ run_len = 2
    /\ active_section = Some(SecB)
    /\ sections = <<>>
    /\ calls # <<>>
    /\ calls[Len(calls)].next = Some(SecB)

=============================================================================
